---- MODULE Spec2Model ----
(***************************************************************************)
(* Browser session (PlaywrightManager) and the action surface built on it  *)
(* (agents/autogen_tools.py), as a state machine.  One action per tool     *)
(* call; every tool call is modelled whole, from the call to the envelope  *)
(* it returns.  The browser engine, the page and the reducer script are    *)
(* the environment: their outcomes are drawn with \E.                      *)
(***************************************************************************)
EXTENDS Integers, Sequences, FiniteSets, TLC

VARIABLES
    headless,      \* PlaywrightManager.headless : the mode chromium.launch is given
    playwright,    \* PlaywrightManager.playwright : 0 is None, g > 0 the handle acquired by the g-th initialize
    browser,       \* PlaywrightManager.browser
    context,       \* PlaywrightManager.context
    page,          \* PlaywrightManager.page
    mmid_counter,  \* PlaywrightManager.mmid_counter
    inits,         \* number of initialize() calls made so far
    live,          \* resources acquired and not yet released: <<kind, g>>
    url,           \* URL of the page self.page refers to
    elems,         \* live DOM of that page: sequence of elements
    credentials,   \* st.session_state.credentials
    passes,        \* number of successful reducer passes so far
    tasks,         \* the get_clean_dom_representation coroutines in flight, each at one of its awaits
    call,          \* the last operation and the arguments it was given
    ops,           \* engine operations issued by the last call, in order, with their outcome
    ret            \* what the last tool call gave back to its caller

vars == <<headless, playwright, browser, context, page, mmid_counter, inits, live,
          url, elems, credentials, passes, tasks, call, ops, ret>>

----------------------------------------------------------------------------
(* Bounds of the model *)

MaxInit == 2        \* initialize() calls explored
MaxPasses == 2      \* successful reducer passes explored
ConjuredId == 999   \* an identifier the caller made up (spec scenario click("999"))

(* Program constants *)

InitialCounter == 1     \* self.mmid_counter = 1
FallbackStep == 1000    \* dom.get('mmid_counter', self.mmid_counter + 1000)

USERNAME_PLACEHOLDER == "!USERNAME!"
PASSWORD_PLACEHOLDER == "!PASSWORD!"

----------------------------------------------------------------------------
(* Input domains *)

Texts == {"hello", USERNAME_PLACEHOLDER, PASSWORD_PLACEHOLDER}
Usernames == {"alice"}
Passwords == {"s3cret"}
Urls == {"login", "busy", "dup"}
Waits == {0, 500}

FeedRows == FallbackStep + 1

Kinds == <<"playwright", "browser", "context", "page">>

Depth(k) == CHOOSE i \in 1..4 : Kinds[i] = k

----------------------------------------------------------------------------
(* The live page *)

Elem(m, f, a, r) ==
    [mmid |-> m, fillable |-> f, actionable |-> a, rendered |-> r,
     value |-> "", clicked |-> FALSE]

\* The document each URL serves.  "login": a text input and a button.
\* "busy": a disabled button and an input hidden by layout.  "dup": markup
\* that already carries the identifier attribute, twice with the same value.
\* "feed": a long list, one row more than the fallback step of the counter.
Site(u) ==
    CASE u = "login" -> << Elem(0, TRUE, TRUE, TRUE), Elem(0, FALSE, TRUE, TRUE) >>
      [] u = "busy"  -> << Elem(0, FALSE, FALSE, TRUE), Elem(0, TRUE, FALSE, FALSE) >>
      [] u = "dup"   -> << Elem(7, FALSE, TRUE, TRUE), Elem(7, FALSE, TRUE, TRUE) >>
      [] u = "feed"  -> [i \in 1..FeedRows |-> Elem(0, FALSE, TRUE, TRUE)]
      [] OTHER       -> << >>

PageLiveIn(lv) == page # 0 /\ <<"page", page>> \in lv
PageLive == PageLiveIn(live)

\* Elements a selector [mmid="m"] matches, and the one a non-strict
\* page.click / page.fill acts on: the first in document order.
Match(es, m) == {i \in DOMAIN es : es[i].mmid = m}
First(es, m) == CHOOSE i \in Match(es, m) : \A j \in Match(es, m) : i <= j

LiveIds == {elems[i].mmid : i \in DOMAIN elems} \ {0}
\* Identifiers a caller passes: one read off the page, or one it made up.
IdArgs == LiveIds \cup {ConjuredId}

----------------------------------------------------------------------------
(* Envelopes *)

NoDom == [isNone |-> TRUE, tree |-> << >>, has_counter |-> FALSE, mmid_counter |-> 0]

\* {"status": s, "message": ...}: kind names the message template, text and
\* id/id2 the values formatted into it.
Envelope(s, k, t, i, i2) ==
    [status |-> s, kind |-> k, text |-> t, id |-> i, id2 |-> i2,
     has_dom |-> FALSE, dom |-> NoDom]

\* {"status": "error", "message": str(e)}
ErrorEnvelope == Envelope("error", "exception", "", 0, 0)

Call(n, i, t, i2, w) ==
    [name |-> n, id |-> i, text |-> t, id2 |-> i2, wait |-> w, headless |-> FALSE]

NoCall == Call("none", 0, "", 0, 0)

Op(n, t, ok) == [op |-> n, target |-> t, ok |-> ok]

----------------------------------------------------------------------------
(* Browser session lifecycle *)

\* Closing a resource closes what was created from it: the g-th page belongs
\* to the g-th context, that to the g-th browser, that to the g-th driver.
Release(lv, k, g) == {r \in lv : ~(r[2] = g /\ Depth(r[1]) >= Depth(k))}

\* initialize that shuts down what the session holds before starting anew.
PM_initialize_restart(f) ==
    LET g == inits + 1
        held == {r \in live : \E i \in 1..4 :
                    /\ r[1] = Kinds[i]
                    /\ r[2] = <<playwright, browser, context, page>>[i]}
    IN
    [playwright |-> IF f >= 1 THEN g ELSE playwright,
     browser    |-> IF f >= 2 THEN g ELSE browser,
     context    |-> IF f >= 3 THEN g ELSE context,
     page       |-> IF f >= 4 THEN g ELSE page,
     live       |-> (live \ held) \cup {<<Kinds[i], g>> : i \in 1..f},
     ops        |-> [i \in 1..(IF f < 4 THEN f + 1 ELSE 4) |-> Op(Kinds[i], g, i <= f)],
     raised     |-> f < 4]

\* PlaywrightManager.initialize: f of the four acquisitions succeed, in order
\* start, launch, new_context, new_page; the first failure is logged and
\* re-raised, and the handles assigned before it stay assigned.
PM_initialize(f) ==
    LET g == inits + 1 IN
    [playwright |-> IF f >= 1 THEN g ELSE playwright,
     browser    |-> IF f >= 2 THEN g ELSE browser,
     context    |-> IF f >= 3 THEN g ELSE context,
     page       |-> IF f >= 4 THEN g ELSE page,
     live       |-> live \cup {<<Kinds[i], g>> : i \in 1..f},
     ops        |-> [i \in 1..(IF f < 4 THEN f + 1 ELSE 4) |-> Op(Kinds[i], g, i <= f)],
     raised     |-> f < 4]

\* initialize_browser(headless): the envelope around initialize().  The
\* argument is not handed on: initialize() launches with self.headless.
initialize_browser_envelope(raised) ==
    IF raised THEN ErrorEnvelope
    ELSE Envelope("success", "initialized", "", 0, 0)

\* initialize_browser on a manager whose initialize() also starts the
\* identifier counter over.
initialize_browser_fresh_counter(headless_arg, f) ==
    LET r == PM_initialize(f) IN
    /\ inits < MaxInit
    /\ inits' = inits + 1
    /\ playwright' = r.playwright
    /\ browser' = r.browser
    /\ context' = r.context
    /\ page' = r.page
    /\ live' = r.live
    /\ mmid_counter' = InitialCounter
    /\ url' = IF f = 4 THEN "about:blank" ELSE url
    /\ elems' = IF f = 4 THEN << >> ELSE elems
    /\ call' = [Call("initialize_browser", 0, "", 0, 0) EXCEPT !.headless = headless_arg]
    /\ ops' = r.ops
    /\ ret' = initialize_browser_envelope(r.raised)
    /\ UNCHANGED <<tasks, headless, credentials, passes>>

initialize_browser(headless_arg, f) ==
    LET r == PM_initialize(f) IN
    /\ inits < MaxInit
    /\ inits' = inits + 1
    /\ playwright' = r.playwright
    /\ browser' = r.browser
    /\ context' = r.context
    /\ page' = r.page
    /\ live' = r.live
    /\ url' = IF f = 4 THEN "about:blank" ELSE url
    /\ elems' = IF f = 4 THEN << >> ELSE elems
    /\ call' = [Call("initialize_browser", 0, "", 0, 0) EXCEPT !.headless = headless_arg]
    /\ ops' = r.ops
    /\ ret' = initialize_browser_envelope(r.raised)
    /\ UNCHANGED <<tasks, headless, mmid_counter, credentials, passes>>

\* close that shuts the engine down before the context opened in it.
PM_close_engine_first(e) ==
    LET ctxOk == context # 0 /\ e # 1
        brOk  == browser # 0 /\ e # 2
        pwOk  == playwright # 0 /\ e # 3
        live1 == IF brOk THEN Release(live, "browser", browser) ELSE live
        live2 == IF brOk /\ ctxOk THEN Release(live1, "context", context) ELSE live1
        live3 == IF brOk /\ ctxOk /\ pwOk
                 THEN Release(live2, "playwright", playwright) ELSE live2
    IN
    [live   |-> live3,
     ops    |-> << Op("browser.close", browser, brOk) >>
                \o (IF brOk THEN << Op("context.close", context, ctxOk) >> ELSE << >>)
                \o (IF brOk /\ ctxOk
                    THEN << Op("playwright.stop", playwright, pwOk) >> ELSE << >>),
     raised |-> ~(ctxOk /\ brOk /\ pwOk)]

\* PlaywrightManager.close: context.close(), browser.close(),
\* playwright.stop() inside one try; e names the release the engine fails
\* (0: none).  A None handle fails its release with AttributeError.  The
\* first failure is logged and re-raised; the handles are never reset.
PM_close(e) ==
    LET ctxOk == context # 0 /\ e # 1
        brOk  == browser # 0 /\ e # 2
        pwOk  == playwright # 0 /\ e # 3
        live1 == IF ctxOk THEN Release(live, "context", context) ELSE live
        live2 == IF ctxOk /\ brOk THEN Release(live1, "browser", browser) ELSE live1
        live3 == IF ctxOk /\ brOk /\ pwOk
                 THEN Release(live2, "playwright", playwright) ELSE live2
    IN
    [live   |-> live3,
     ops    |-> << Op("context.close", context, ctxOk) >>
                \o (IF ctxOk THEN << Op("browser.close", browser, brOk) >> ELSE << >>)
                \o (IF ctxOk /\ brOk
                    THEN << Op("playwright.stop", playwright, pwOk) >> ELSE << >>),
     raised |-> ~(ctxOk /\ brOk /\ pwOk)]

\* close_browser() without its try/except: what close() raises leaves the tool.
close_browser_uncaught(raised) ==
    IF raised THEN Envelope("raised", "exception", "", 0, 0)
    ELSE Envelope("success", "closed", "", 0, 0)

\* close_browser(): the envelope around close().
close_browser_envelope(raised) ==
    IF raised THEN ErrorEnvelope
    ELSE Envelope("success", "closed", "", 0, 0)

close_browser(e) ==
    LET r == PM_close(e) IN
    /\ live' = r.live
    /\ call' = Call("close_browser", 0, "", 0, 0)
    /\ ops' = r.ops
    /\ ret' = close_browser_envelope(r.raised)
    /\ UNCHANGED <<tasks, headless, playwright, browser, context, page, mmid_counter, inits,
                   url, elems, credentials, passes>>

----------------------------------------------------------------------------
(* Navigation *)

NavOutcomes == {"ok", "timeout", "timeout_committed"}

\* goto_url that tries a failed navigation a second time.
PM_goto_url_retry(u, o) ==
    LET ok == PageLive /\ o = "ok"
        committed == PageLive /\ o \in {"ok", "timeout_committed"}
    IN
    [url   |-> IF committed THEN u ELSE url,
     elems |-> IF committed THEN Site(u) ELSE elems,
     ops   |-> IF page = 0 THEN << >>
               ELSE IF ok THEN << Op("goto", page, ok) >>
               ELSE << Op("goto", page, ok), Op("goto", page, ok) >>,
     ret   |-> IF ok THEN Envelope("success", "navigated", u, 0, 0) ELSE ErrorEnvelope]

\* PlaywrightManager.goto_url: one page.goto(url, timeout); any failure
\* (page is None, page closed, timeout) becomes an error envelope.  A goto
\* that times out may already have committed the new document.
PM_goto_url(u, o) ==
    LET ok == PageLive /\ o = "ok"
        committed == PageLive /\ o \in {"ok", "timeout_committed"}
    IN
    [url   |-> IF committed THEN u ELSE url,
     elems |-> IF committed THEN Site(u) ELSE elems,
     ops   |-> IF page = 0 THEN << >> ELSE << Op("goto", page, ok) >>,
     ret   |-> IF ok THEN Envelope("success", "navigated", u, 0, 0) ELSE ErrorEnvelope]

navigate_to_url(u, o) ==
    LET r == PM_goto_url(u, o) IN
    /\ url' = r.url
    /\ elems' = r.elems
    /\ call' = Call("navigate_to_url", 0, u, 0, 0)
    /\ ops' = r.ops
    /\ ret' = r.ret
    /\ UNCHANGED <<tasks, headless, playwright, browser, context, page, mmid_counter, inits, live,
                   credentials, passes>>

\* get_current_url(): reads playwright_manager.page.url; with page None the
\* attribute access raises and the tool answers with an error envelope.  A
\* closed page still reports its last URL.
get_current_url_envelope ==
    IF page = 0 THEN ErrorEnvelope
    ELSE Envelope("success", "current_url", url, 0, 0)

get_current_url ==
    /\ call' = Call("get_current_url", 0, "", 0, 0)
    /\ ops' = << >>
    /\ ret' = get_current_url_envelope
    /\ UNCHANGED <<tasks, headless, playwright, browser, context, page, mmid_counter, inits, live,
                   url, elems, credentials, passes>>

----------------------------------------------------------------------------
(* Snapshot *)

\* The reducer (playwright_helper/dom_parser.js): walks the document from
\* the seed, writes a fresh identifier on every rendered element in
\* document order, and reports the tagged identifiers and the final counter.
\* TagFrom does es[lo..hi] from counter c: the first half, then the second
\* from where the first one ended.
RECURSIVE TagFrom(_, _, _, _)
TagFrom(es, lo, hi, c) ==
    IF lo > hi THEN [elems |-> << >>, tree |-> << >>, counter |-> c]
    ELSE IF lo = hi
         THEN IF es[lo].rendered
              THEN [elems |-> << [es[lo] EXCEPT !.mmid = c] >>, tree |-> << c >>,
                    counter |-> c + 1]
              ELSE [elems |-> << es[lo] >>, tree |-> << >>, counter |-> c]
         ELSE LET mid == (lo + hi) \div 2
                  l == TagFrom(es, lo, mid, c)
                  r == TagFrom(es, mid + 1, hi, l.counter)
              IN [elems |-> l.elems \o r.elems, tree |-> l.tree \o r.tree,
                  counter |-> r.counter]

Reduce(es, seed) == TagFrom(es, 1, Len(es), seed)

\* What wait_for_url, open(), and page.evaluate can do to one snapshot call.
SnapshotOutcomes ==
    {"wait_fails", "open_fails", "eval_throws", "null", "dict", "dict_no_counter"}

\* dom.get('mmid_counter', default)
DomGetCounter(dom, default) ==
    IF dom.has_counter THEN dom.mmid_counter ELSE default

\* The envelope of get_clean_dom_representation.
DomEnvelope(s, dom) ==
    [status |-> s, kind |-> IF s = "success" THEN "dom" ELSE "exception",
     text |-> "", id |-> 0, id2 |-> 0, has_dom |-> TRUE, dom |-> dom]

\* What one call of get_clean_dom_representation does when the reducer is
\* run from `seed` and a null result is handled as `nullOk` says: a dict
\* result updates the counter and is returned; everything else (page None,
\* a failed wait/open/evaluate, a null result, on which dom.get raises)
\* lands in the except branch.
SnapshotFrom(seed, o, nullOk) ==
    LET r == Reduce(elems, seed)
        tagged == PageLive /\ o \in {"dict", "dict_no_counter"}
        ok == tagged \/ (nullOk /\ PageLive /\ o = "null")
        dom == IF tagged
               THEN [isNone |-> FALSE, tree |-> r.tree, has_counter |-> (o = "dict"),
                     mmid_counter |-> IF o = "dict" THEN r.counter ELSE 0]
               ELSE NoDom
    IN
    [elems        |-> IF tagged THEN r.elems ELSE elems,
     mmid_counter |-> IF ok THEN DomGetCounter(dom, mmid_counter + FallbackStep)
                      ELSE mmid_counter,
     ops          |-> IF page = 0 THEN << >>
                      ELSE IF ~PageLive \/ o = "wait_fails" THEN << Op("wait_for_url", page, FALSE) >>
                      ELSE IF o = "open_fails" THEN << Op("wait_for_url", page, TRUE) >>
                      ELSE << Op("wait_for_url", page, TRUE),
                              Op("evaluate", seed, o # "eval_throws") >>,
     ok           |-> ok,
     ret          |-> IF ok THEN DomEnvelope("success", dom) ELSE DomEnvelope("error", NoDom)]

\* The snapshot seeded from the counter the session was constructed with,
\* not from the one the last pass reported.
PM_snapshot_stale_seed(o) == SnapshotFrom(InitialCounter, o, FALSE)

\* The snapshot that guards the counter lookup against a null result
\* (dom and dom.get(...)) and so reports success with no tree.
PM_snapshot_null_success(o) == SnapshotFrom(mmid_counter, o, TRUE)

\* PlaywrightManager.get_clean_dom_representation: the reducer is seeded
\* with self.mmid_counter.
PM_get_clean_dom_representation(o) == SnapshotFrom(mmid_counter, o, FALSE)

\* get_page_dom() with no other call scheduled between its awaits.
get_page_dom(o) ==
    LET r == PM_get_clean_dom_representation(o) IN
    /\ r.ok => passes < MaxPasses
    /\ passes' = IF r.ok THEN passes + 1 ELSE passes
    /\ elems' = r.elems
    /\ mmid_counter' = r.mmid_counter
    /\ call' = Call("get_page_dom", 0, "", 0, 0)
    /\ ops' = r.ops
    /\ ret' = r.ret
    /\ UNCHANGED <<tasks, headless, playwright, browser, context, page, inits, live, url, credentials>>

----------------------------------------------------------------------------
(* Snapshot calls in one event loop *)

\* The tools are coroutines on one module-level manager: a call gives up
\* the loop at each await, and another call can run from there.  Below,
\* get_page_dom() is taken one await at a time, for the calls in Tasks.
Tasks == {"a", "b"}

IdleTask == [pc |-> "idle", seed |-> 0, evalOk |-> FALSE, dom |-> NoDom]

InFlight == {t \in Tasks : tasks[t].pc # "idle"}

\* What the call of task t gives back, and the task is over.
snapshot_return(t, os, envelope) ==
    /\ tasks' = [tasks EXCEPT ![t] = IdleTask]
    /\ call' = Call("get_page_dom", 0, "", 0, 0)
    /\ ops' = os
    /\ ret' = envelope

\* url = self.page.url; await self.page.wait_for_url(url=url)
snapshot_begin(t) ==
    /\ tasks[t].pc = "idle"
    /\ passes + Cardinality(InFlight) < MaxPasses
    /\ IF page = 0
       THEN snapshot_return(t, << >>, DomEnvelope("error", NoDom))
       ELSE /\ tasks' = [tasks EXCEPT ![t].pc = "wait_for_url"]
            /\ UNCHANGED <<call, ops, ret>>
    /\ UNCHANGED <<headless, playwright, browser, context, page, mmid_counter, inits,
                   live, url, elems, credentials, passes>>

\* The wait is over: the script is read, self.mmid_counter is formatted
\* into it, and page.evaluate is awaited.
snapshot_evaluate(t, o) ==
    /\ tasks[t].pc = "wait_for_url"
    /\ IF ~PageLive \/ o = "wait_fails"
       THEN snapshot_return(t, << Op("wait_for_url", page, FALSE) >>,
                            DomEnvelope("error", NoDom))
       ELSE IF o = "open_fails"
       THEN snapshot_return(t, << Op("wait_for_url", page, TRUE) >>,
                            DomEnvelope("error", NoDom))
       ELSE /\ tasks' = [tasks EXCEPT ![t].pc = "evaluate", ![t].seed = mmid_counter]
            /\ UNCHANGED <<call, ops, ret>>
    /\ UNCHANGED <<headless, playwright, browser, context, page, mmid_counter, inits,
                   live, url, elems, credentials, passes>>

\* The page runs the script task t sent, from the seed formatted into it.
page_evaluates(t, o) ==
    LET r == SnapshotFrom(tasks[t].seed, o, FALSE) IN
    /\ tasks[t].pc = "evaluate"
    /\ elems' = r.elems
    /\ tasks' = [tasks EXCEPT ![t].pc = "evaluated",
                              ![t].evalOk = (PageLive /\ o # "eval_throws"),
                              ![t].dom = r.ret.dom]
    /\ UNCHANGED <<headless, playwright, browser, context, page, mmid_counter, inits,
                   live, url, credentials, passes, call, ops, ret>>

\* page.evaluate is back: self.mmid_counter = dom.get('mmid_counter',
\* self.mmid_counter + 1000), and the envelope is returned.
snapshot_store(t) ==
    LET dom == tasks[t].dom
        ok == ~dom.isNone
    IN
    /\ tasks[t].pc = "evaluated"
    /\ mmid_counter' = IF ok THEN DomGetCounter(dom, mmid_counter + FallbackStep)
                       ELSE mmid_counter
    /\ passes' = IF ok THEN passes + 1 ELSE passes
    /\ snapshot_return(t, << Op("wait_for_url", page, TRUE),
                             Op("evaluate", tasks[t].seed, tasks[t].evalOk) >>,
                       IF ok THEN DomEnvelope("success", dom) ELSE DomEnvelope("error", NoDom))
    /\ UNCHANGED <<headless, playwright, browser, context, page, inits,
                   live, url, elems, credentials>>

----------------------------------------------------------------------------
(* Action resolver *)

Target(es, m) == IF Match(es, m) = {} THEN 0 ELSE First(es, m)

\* page.click(selector): acts on the first match once it is actionable
\* (rendered, enabled, not covered); no match or a match that never becomes
\* actionable ends in a timeout error.
ClickOk(lv, es, m) ==
    PageLiveIn(lv) /\ Match(es, m) # {} /\ es[First(es, m)].actionable
Clicked(es, m) == [es EXCEPT ![First(es, m)].clicked = TRUE]

\* page.fill(selector, value): the same, and the element must be a
\* fillable control.
FillOk(lv, es, m) ==
    /\ PageLiveIn(lv)
    /\ Match(es, m) # {}
    /\ es[First(es, m)].fillable
    /\ es[First(es, m)].actionable
Filled(es, m, t) == [es EXCEPT ![First(es, m)].value = t]

\* page.wait_for_timeout(ms): fails only when the page goes away meanwhile.
WaitOk(lv, crash) == PageLiveIn(lv) /\ ~crash
AfterWait(lv, crash) == IF crash THEN lv \ {<<"page", page>>} ELSE lv

\* click whose except branch also answers "success".
PM_click_swallow(m, w, crash) ==
    [live  |-> live,
     elems |-> IF ClickOk(live, elems, m) THEN Clicked(elems, m) ELSE elems,
     ops   |-> IF page = 0 THEN << >> ELSE << Op("click", Target(elems, m), ClickOk(live, elems, m)) >>,
     ret   |-> Envelope("success", "clicked", "", m, 0)]

\* PlaywrightManager.click
PM_click(m, w, crash) ==
    LET waits == w # 0
        waitOk == ~waits \/ WaitOk(live, crash)
        lv == IF waits THEN AfterWait(live, crash) ELSE live
        ok == waitOk /\ ClickOk(lv, elems, m)
    IN
    [live  |-> lv,
     elems |-> IF ok THEN Clicked(elems, m) ELSE elems,
     ops   |-> IF page = 0 THEN << >>
               ELSE (IF waits THEN << Op("wait", page, waitOk) >> ELSE << >>)
                    \o (IF waitOk THEN << Op("click", Target(elems, m), ok) >> ELSE << >>),
     ret   |-> IF ok THEN Envelope("success", "clicked", "", m, 0) ELSE ErrorEnvelope]

click_element(m, w, crash) ==
    LET r == PM_click(m, w, crash) IN
    /\ crash => w # 0
    /\ live' = r.live
    /\ elems' = r.elems
    /\ call' = Call("click_element", m, "", 0, w)
    /\ ops' = r.ops
    /\ ret' = r.ret
    /\ UNCHANGED <<tasks, headless, playwright, browser, context, page, mmid_counter, inits,
                   url, credentials, passes>>

\* type without the substitution: the content is filled as given.
ResolveContent_literal(content) == content

\* The substitution at the head of PlaywrightManager.type.
ResolveContent(content) ==
    IF content = USERNAME_PLACEHOLDER THEN credentials.username
    ELSE IF content = PASSWORD_PLACEHOLDER THEN credentials.password
    ELSE content

\* PlaywrightManager.type: resolve the placeholders, fill, and report the
\* content as it was passed in.
PM_type(m, content) ==
    LET original_content == content
        resolved == ResolveContent(content)
        ok == FillOk(live, elems, m)
    IN
    [elems |-> IF ok THEN Filled(elems, m, resolved) ELSE elems,
     ops   |-> IF page = 0 THEN << >> ELSE << Op("fill", Target(elems, m), ok) >>,
     ret   |-> IF ok THEN Envelope("success", "typed", original_content, m, 0)
               ELSE ErrorEnvelope]

type_text(m, content) ==
    LET r == PM_type(m, content) IN
    /\ elems' = r.elems
    /\ call' = Call("type_text", m, content, 0, 0)
    /\ ops' = r.ops
    /\ ret' = r.ret
    /\ UNCHANGED <<tasks, headless, playwright, browser, context, page, mmid_counter, inits, live,
                   url, credentials, passes>>

\* The compound action made atomic: a failure after the fill undoes it.
PM_enter_text_and_click_rollback(tm, text, cm, w, crash) ==
    LET fillOk == FillOk(live, elems, tm)
        waits == w # 0
        waitOk == fillOk /\ (~waits \/ WaitOk(live, crash))
        lv == IF fillOk /\ waits THEN AfterWait(live, crash) ELSE live
        ok == waitOk /\ ClickOk(lv, elems, cm)
    IN
    [live  |-> lv,
     elems |-> IF ok THEN Clicked(Filled(elems, tm, text), cm) ELSE elems,
     ops   |-> IF page = 0 THEN << >>
               ELSE << Op("fill", Target(elems, tm), fillOk) >>
                    \o (IF fillOk /\ waits THEN << Op("wait", page, waitOk) >> ELSE << >>)
                    \o (IF waitOk THEN << Op("click", Target(elems, cm), ok) >> ELSE << >>),
     ret   |-> IF ok THEN Envelope("success", "entered_and_clicked", text, tm, cm)
               ELSE ErrorEnvelope]

\* PlaywrightManager.enter_text_and_click: fill with the text as given, wait
\* if asked to, click; the first failure ends the call in the except branch.
PM_enter_text_and_click(tm, text, cm, w, crash) ==
    LET fillOk == FillOk(live, elems, tm)
        es1 == IF fillOk THEN Filled(elems, tm, text) ELSE elems
        waits == w # 0
        waitOk == fillOk /\ (~waits \/ WaitOk(live, crash))
        lv == IF fillOk /\ waits THEN AfterWait(live, crash) ELSE live
        ok == waitOk /\ ClickOk(lv, es1, cm)
    IN
    [live  |-> lv,
     elems |-> IF ok THEN Clicked(es1, cm) ELSE es1,
     ops   |-> IF page = 0 THEN << >>
               ELSE << Op("fill", Target(elems, tm), fillOk) >>
                    \o (IF fillOk /\ waits THEN << Op("wait", page, waitOk) >> ELSE << >>)
                    \o (IF waitOk THEN << Op("click", Target(es1, cm), ok) >> ELSE << >>),
     ret   |-> IF ok THEN Envelope("success", "entered_and_clicked", text, tm, cm)
               ELSE ErrorEnvelope]

text_and_click(tm, text, cm, w, crash) ==
    LET r == PM_enter_text_and_click(tm, text, cm, w, crash) IN
    /\ crash => w # 0
    /\ live' = r.live
    /\ elems' = r.elems
    /\ call' = Call("text_and_click", tm, text, cm, w)
    /\ ops' = r.ops
    /\ ret' = r.ret
    /\ UNCHANGED <<tasks, headless, playwright, browser, context, page, mmid_counter, inits,
                   url, credentials, passes>>

\* PlaywrightManager.enter: page.keyboard.press("Enter")
PM_enter ==
    [ops |-> IF page = 0 THEN << >> ELSE << Op("press", page, PageLive) >>,
     ret |-> IF PageLive THEN Envelope("success", "enter", "", 0, 0) ELSE ErrorEnvelope]

press_enter ==
    LET r == PM_enter IN
    /\ call' = Call("press_enter", 0, "", 0, 0)
    /\ ops' = r.ops
    /\ ret' = r.ret
    /\ UNCHANGED <<tasks, headless, playwright, browser, context, page, mmid_counter, inits, live,
                   url, elems, credentials, passes>>

----------------------------------------------------------------------------
(* Credential source *)

\* The sidebar of app.py: a non-empty input replaces the stored value.
sidebar(username, password) ==
    /\ credentials' =
         [username |-> IF username # "" THEN username ELSE credentials.username,
          password |-> IF password # "" THEN password ELSE credentials.password]
    /\ credentials' # credentials
    /\ call' = Call("sidebar", 0, "", 0, 0)
    /\ UNCHANGED <<tasks, headless, playwright, browser, context, page, mmid_counter, inits, live,
                   url, elems, passes, ops, ret>>

----------------------------------------------------------------------------
(* The program *)

NoEnvelope == Envelope("none", "none", "", 0, 0)

\* PlaywrightManager(headless=False) and the empty credentials of app.py.
Init ==
    /\ headless = FALSE
    /\ playwright = 0
    /\ browser = 0
    /\ context = 0
    /\ page = 0
    /\ mmid_counter = InitialCounter
    /\ inits = 0
    /\ live = {}
    /\ url = ""
    /\ elems = << >>
    /\ credentials = [username |-> "", password |-> ""]
    /\ passes = 0
    /\ tasks = [t \in Tasks |-> IdleTask]
    /\ call = NoCall
    /\ ops = << >>
    /\ ret = NoEnvelope

\* The whole action surface, in any order, over every way the session can
\* be brought up and torn down; the page inputs are kept to one document.
Next ==
    \/ \E h \in BOOLEAN, f \in 0..4 : initialize_browser(h, f)
    \/ \E o \in NavOutcomes : navigate_to_url("login", o)
    \/ get_current_url
    \/ \E o \in {"eval_throws", "dict"} : (o = "dict" => passes = 0) /\ get_page_dom(o)
    \/ \E m \in IdArgs : click_element(m, 0, FALSE)
    \/ \E m \in IdArgs : type_text(m, "hello")
    \/ \E tm \in IdArgs, cm \in IdArgs : text_and_click(tm, "hello", cm, 0, FALSE)
    \/ press_enter
    \/ \E e \in 0..3 : close_browser(e)

Spec == Init /\ [][Next]_vars

\* One session brought up once (the caller guards initialize): navigation,
\* snapshots and clicks over every document and every engine outcome, with
\* the other calls of the surface in between.
NextPage ==
    \/ page = 0 /\ initialize_browser(FALSE, 4)
    \/ \E u \in Urls, o \in NavOutcomes : navigate_to_url(u, o)
    \/ get_current_url
    \/ \E o \in SnapshotOutcomes : get_page_dom(o)
    \/ \E m \in IdArgs, w \in Waits, crash \in BOOLEAN : click_element(m, w, crash)
    \/ \E m \in IdArgs : type_text(m, "hello")
    \/ \E tm \in IdArgs, cm \in IdArgs : text_and_click(tm, "hello", cm, 0, FALSE)
    \/ press_enter
    \/ close_browser(0)

SpecPage == Init /\ [][NextPage]_vars

\* One session brought up once, one snapshot per run, and every text-entry
\* input: all texts, credentials, identifiers and waits.
NextType ==
    \/ page = 0 /\ initialize_browser(FALSE, 4)
    \/ \E u \in Urls : navigate_to_url(u, "ok")
    \/ passes = 0 /\ get_page_dom("dict")
    \/ \E m \in IdArgs, t \in Texts : type_text(m, t)
    \/ \E tm \in IdArgs, t \in Texts, cm \in IdArgs, w \in Waits, crash \in BOOLEAN :
          text_and_click(tm, t, cm, w, crash)
    \/ \E u \in Usernames, p \in Passwords : sidebar(u, p)

SpecType == Init /\ [][NextType]_vars

\* One session brought up once, over a short and a long document and the
\* reducer results with and without a counter field.
NextFeed ==
    \/ page = 0 /\ initialize_browser(FALSE, 4)
    \/ \E u \in {"login", "feed"} : navigate_to_url(u, "ok")
    \/ \E o \in {"null", "dict", "dict_no_counter"} : get_page_dom(o)
    \/ \E m \in {InitialCounter, ConjuredId} : click_element(m, 0, FALSE)
    \/ press_enter
    \/ close_browser(0)

SpecFeed == Init /\ [][NextFeed]_vars

\* One session brought up once, and two get_page_dom() calls dispatched
\* without waiting for each other, with navigation and clicks around them.
NextConcurrent ==
    \/ page = 0 /\ initialize_browser(FALSE, 4)
    \/ \E u \in {"login", "busy"} : navigate_to_url(u, "ok")
    \/ \E t \in Tasks : snapshot_begin(t)
    \/ \E t \in Tasks, o \in {"open_fails", "sent"} : snapshot_evaluate(t, o)
    \/ \E t \in Tasks, o \in {"null", "dict"} : page_evaluates(t, o)
    \/ \E t \in Tasks : snapshot_store(t)
    \/ \E m \in IdArgs : click_element(m, 0, FALSE)
    \/ close_browser(0)

SpecConcurrent == Init /\ [][NextConcurrent]_vars

----------------------------------------------------------------------------
(* Properties of the action surface *)

Handle(k) ==
    CASE k = "playwright" -> playwright
      [] k = "browser" -> browser
      [] k = "context" -> context
      [] k = "page" -> page

KindNames == {Kinds[i] : i \in 1..4}

OpNames(os) == [i \in 1..Len(os) |-> os[i].op]

Attempted(name) == \E i \in 1..Len(ops) : ops[i].op = name

\* C1: every call of the action surface, in any order and in any state of
\* the session (never initialized, initialized in part, closed), hands back
\* an envelope whose status is "success" or "error"; nothing is raised
\* past the tool.
C1_EveryCallReturnsEnvelope ==
    call.name # "none" => ret.status \in {"success", "error"}

\* A call made after close_browser released the page: it is answered with
\* an error envelope.
C1_Witness ==
    /\ call.name = "press_enter"
    /\ page # 0 /\ ~PageLive /\ <<"playwright", page>> \notin live
    /\ ret.status = "error"

\* C2: shutdown after an initialization that failed part-way releases every
\* sub-resource that was acquired: unless the engine itself fails a release,
\* no handle of the session refers to a live resource after close_browser.
C2_PartialInitShutdownReleasesAll ==
    ( /\ call.name = "close_browser"
      /\ \A i \in 1..Len(ops) : ops[i].ok \/ ops[i].target = 0 )
    => \A k \in KindNames : Handle(k) # 0 => <<k, Handle(k)>> \notin live

\* C3: when one release fails during shutdown, each of the other resources
\* the session holds still has its release attempted.
C3_FailedReleaseDoesNotBlockOthers ==
    ( /\ call.name = "close_browser"
      /\ \E i \in 1..Len(ops) : ~ops[i].ok /\ ops[i].target # 0 )
    => /\ context # 0 => Attempted("context.close")
       /\ browser # 0 => Attempted("browser.close")
       /\ playwright # 0 => Attempted("playwright.stop")

Placeholders == {USERNAME_PLACEHOLDER, PASSWORD_PLACEHOLDER}

\* The value a credential placeholder stands for.
Configured(t) ==
    IF t = USERNAME_PLACEHOLDER THEN credentials.username ELSE credentials.password

FillSucceeded == ops # << >> /\ ops[1].op = "fill" /\ ops[1].ok

\* C4: type with content "!USERNAME!" (resp. "!PASSWORD!") fills the field
\* with the configured username (resp. password), never with the placeholder
\* itself, and the success message echoes the placeholder, not the resolved
\* value; any other content is filled as given.
C4_TypeSubstitutesCredentials ==
    (call.name = "type_text" /\ ret.status = "success") =>
        LET v == elems[First(elems, call.id)].value IN
        /\ FillSucceeded /\ ops[1].target = First(elems, call.id)
        /\ call.text \in Placeholders => (v = Configured(call.text) /\ v # call.text)
        /\ call.text \notin Placeholders => v = call.text
        /\ ret.kind = "typed" /\ ret.id = call.id /\ ret.text = call.text
        /\ call.text \in Placeholders => ret.text # v

\* type("!USERNAME!") with a username configured: the field holds the
\* username and the message the placeholder.
C4_Witness ==
    /\ call.name = "type_text" /\ call.text = USERNAME_PLACEHOLDER
    /\ ret.status = "success" /\ ret.text = USERNAME_PLACEHOLDER
    /\ credentials.username = "alice"
    /\ elems[First(elems, call.id)].value = "alice"

\* C5: in both text-entering actions, type and the compound type-then-click,
\* a credential placeholder given as the text is replaced by the configured
\* value before the field is filled.
C5_BothTextActionsSubstitute ==
    ( /\ call.name \in {"type_text", "text_and_click"}
      /\ FillSucceeded
      /\ call.text \in Placeholders )
    => LET v == elems[ops[1].target].value IN
       v = Configured(call.text) /\ v # call.text

----------------------------------------------------------------------------
(* Click resolution *)

Range(f) == {f[i] : i \in DOMAIN f}

ClickDone == \E i \in 1..Len(ops) : ops[i].op = "click" /\ ops[i].ok

\* The step is a click on an identifier of the snapshot taken by the call
\* just before it, and the page is still there when the click is made.
ClickOnFreshSnapshotId ==
    /\ call'.name = "click_element"
    /\ call.name = "get_page_dom" /\ ret.status = "success"
    /\ call'.id \in Range(ret.dom.tree)
    /\ PageLive'

\* A click on an identifier no live element carries is answered with an
\* error envelope and leaves the page as it was.
ClickOnAbsentIdFailsCleanly ==
    (call'.name = "click_element" /\ Match(elems, call'.id) = {}) =>
        (ret'.status = "error" /\ elems' = elems)

\* C6 as stated: click on an absent identifier fails cleanly, and click on
\* any identifier of the latest snapshot of the unmutated page succeeds.
C6_ClickTotalOnSnapshotIds ==
    [][ /\ ClickOnAbsentIdFailsCleanly
        /\ ClickOnFreshSnapshotId => ret'.status = "success" ]_vars

\* C6, amended: click on an absent identifier fails cleanly, and click on
\* an identifier of the latest snapshot of the unmutated page succeeds when
\* the element carrying it is actionable (enabled and not covered), and
\* fails cleanly when it is not.
C6_ClickOnActionableSnapshotIds ==
    [][ /\ ClickOnAbsentIdFailsCleanly
        /\ (ClickOnFreshSnapshotId /\ elems[First(elems, call'.id)].actionable)
               => (ret'.status = "success" /\ elems'[First(elems, call'.id)].clicked)
        /\ (ClickOnFreshSnapshotId /\ ~elems[First(elems, call'.id)].actionable)
               => (ret'.status = "error" /\ elems' = elems) ]_vars

\* A click that succeeded on an identifier a snapshot issued.
C6_Witness ==
    /\ call.name = "click_element" /\ ret.status = "success"
    /\ passes > 0 /\ call.id < mmid_counter /\ call.id # 7
    /\ elems[First(elems, call.id)].clicked

\* C7: click fails, and clicks nothing, whenever the number of live elements
\* carrying the identifier is not exactly one: none, or more than one.
C7_ClickNeedsUniqueMatch ==
    (call.name = "click_element" /\ Cardinality(Match(elems, call.id)) # 1)
        => (ret.status = "error" /\ ~ClickDone)

----------------------------------------------------------------------------
(* The compound action *)

CompoundPlan == << "fill" >> \o (IF call.wait # 0 THEN << "wait" >> ELSE << >>) \o << "click" >>

\* C8: the compound action fills, then waits if asked to, then clicks, each
\* step only after the one before it completed; it answers "success" only
\* when fill and click both completed; a failure after the fill leaves the
\* field filled; a failed fill means no click is attempted.
C8_CompoundFillWaitClickNotAtomic ==
    call.name = "text_and_click" =>
        /\ Len(ops) <= Len(CompoundPlan)
        /\ OpNames(ops) = SubSeq(CompoundPlan, 1, Len(ops))
        /\ \A i \in 1..(Len(ops) - 1) : ops[i].ok
        /\ ret.status = "success" <=>
              (Len(ops) = Len(CompoundPlan) /\ \A i \in 1..Len(ops) : ops[i].ok)
        /\ ret.status = "success" =>
              (elems[ops[1].target].value = call.text /\ elems[ops[Len(ops)].target].clicked)
        /\ (FillSucceeded /\ ret.status = "error") =>
              elems[ops[1].target].value = call.text
        /\ ~FillSucceeded => ~Attempted("click")

\* The fill went through, the click after it failed: an error envelope,
\* and the text is in the field.
C8_Witness ==
    /\ call.name = "text_and_click" /\ ret.status = "error"
    /\ FillSucceeded
    /\ ops[Len(ops)].op = "click" /\ ~ops[Len(ops)].ok
    /\ elems[ops[1].target].value = call.text /\ call.text = "hello"

----------------------------------------------------------------------------
(* Snapshots and the identifier counter *)

\* C9: a snapshot call never raises; a failure of any kind (no page, a
\* failed wait, an unreadable script, a failed evaluation, a null result)
\* gives an error envelope with a null tree and leaves the counter as it
\* was; a success envelope carries a tree.
C9_SnapshotTotal ==
    [][ call'.name = "get_page_dom" =>
          /\ ret'.status \in {"success", "error"}
          /\ ret'.has_dom
          /\ ret'.status = "error" => (ret'.dom.isNone /\ mmid_counter' = mmid_counter)
          /\ ret'.status = "success" => ~ret'.dom.isNone ]_vars

\* The reducer ran and gave back null: an error envelope, no tree.
C9_Witness ==
    /\ call.name = "get_page_dom" /\ ret.status = "error" /\ ret.dom.isNone
    /\ Len(ops) = 2 /\ ops[2].op = "evaluate" /\ ops[2].ok
    /\ passes > 0

\* C10: the counter starts at 1, only a successful snapshot changes it, each
\* reducer pass is seeded with the counter as the latest successful snapshot
\* left it, and a successful snapshot stores the final counter the reducer
\* reported (the seed plus 1000 when it reported none).
C10_SeedIsLastReportedCounter ==
    [][ /\ passes = 0 => mmid_counter = InitialCounter
        /\ IF call'.name = "get_page_dom" /\ passes' # passes
           THEN /\ ret'.status = "success"
                /\ ops'[Len(ops')].op = "evaluate" /\ ops'[Len(ops')].target = mmid_counter
                /\ ret'.dom.tree # << >> => ret'.dom.tree[1] = mmid_counter
                /\ ret'.dom.has_counter => mmid_counter' = ret'.dom.mmid_counter
                /\ ~ret'.dom.has_counter => mmid_counter' = mmid_counter + FallbackStep
           ELSE /\ mmid_counter' = mmid_counter
                /\ \A i \in 1..Len(ops') :
                      (call'.name = "get_page_dom" /\ ops'[i].op = "evaluate")
                          => ops'[i].target = mmid_counter ]_vars

\* A second pass seeded with what the first one reported.
C10_Witness ==
    /\ call.name = "get_page_dom" /\ ret.status = "success" /\ passes = 2
    /\ ops[2].target > InitialCounter /\ ops[2].target < FallbackStep
    /\ ret.dom.has_counter /\ mmid_counter = ret.dom.mmid_counter
    /\ mmid_counter > ops[2].target

\* C11: identifiers issued across passes never collide: a successful pass
\* leaves the counter at or above the seed plus the number of nodes it
\* tagged, and strictly above the seed when it tagged any, so the next pass
\* starts above every identifier issued before; also when the reducer
\* result carries no counter field and the seed plus 1000 is stored.
C11_PassesNeverCollide ==
    [][ (call'.name = "get_page_dom" /\ ret'.status = "success") =>
          /\ mmid_counter' >= mmid_counter + Len(ret'.dom.tree)
          /\ ret'.dom.tree # << >> => mmid_counter' > mmid_counter
          /\ \A i \in 1..Len(ret'.dom.tree) : ret'.dom.tree[i] < mmid_counter' ]_vars

----------------------------------------------------------------------------
(* Lifecycle *)

ShutdownPlan == << "context.close", "browser.close", "playwright.stop" >>

\* C12: close_browser releases in the fixed order context, engine,
\* automation handle, each on the handle the session holds: the engine is
\* closed only after the context close completed, and the automation handle
\* is stopped only after the engine close completed.
C12_ShutdownOrder ==
    call.name = "close_browser" =>
        /\ ops # << >> /\ Len(ops) <= Len(ShutdownPlan)
        /\ OpNames(ops) = SubSeq(ShutdownPlan, 1, Len(ops))
        /\ \A i \in 1..(Len(ops) - 1) : ops[i].ok
        /\ \A i \in 1..Len(ops) :
              ops[i].target = Handle(Kinds[4 - i]) /\ (ops[i].ok => ops[i].target # 0)
        /\ ret.status = "success" <=> (Len(ops) = Len(ShutdownPlan) /\ ops[Len(ops)].ok)

\* A shutdown of a fully started session in which all three releases ran.
C12_Witness ==
    /\ call.name = "close_browser" /\ ret.status = "success"
    /\ OpNames(ops) = ShutdownPlan /\ \A i \in 1..3 : ops[i].ok
    /\ live = {}

\* The resources the handles of the session refer to.
Held == {<<k, Handle(k)>> : k \in KindNames}

\* C13: initialize on a session that is up (no shutdown in between) starts
\* a second driver, engine, context and page and overwrites all four
\* handles; those of the first stay live, and a live resource that no
\* handle refers to is not released by any later call, close included.
C13_SecondInitializeLeaksFirst ==
    [][ /\ ( /\ call'.name = "initialize_browser" /\ ret'.status = "success"
             /\ Held \subseteq live )
           => /\ \A k \in KindNames : Handle(k)' = inits + 1 /\ Handle(k)' # Handle(k)
              /\ Held' \subseteq live'
              /\ Held \subseteq live' \ Held'
        /\ \A r \in live : Handle(r[1]) # r[2] => r \in live' ]_vars

\* Two initializations, then a shutdown that succeeded: everything the
\* first one acquired is still live.
C13_Witness ==
    /\ inits = 2 /\ page = 2
    /\ call.name = "close_browser" /\ ret.status = "success"
    /\ live = {<<k, 1>> : k \in KindNames}

----------------------------------------------------------------------------
(* Navigation *)

\* The last call was a navigation that failed on a page that is there.
NavigateTimedOut ==
    call.name = "navigate_to_url" /\ ret.status # "success" /\ PageLive

\* C14: a navigation that does not reach its load target in time answers
\* with an error envelope carrying the exception's message, made exactly
\* one page.goto, and leaves the four handles, the resources behind them
\* and the counter as they were; a call made right after it (a second
\* navigation, the current URL, a key press) can succeed.
C14_NavigateTimeoutLeavesSessionUsable ==
    /\ [][ (call'.name = "navigate_to_url" /\ ret'.status # "success" /\ PageLive) =>
             /\ ret' = ErrorEnvelope
             /\ ops' = << Op("goto", page, FALSE) >>
             /\ UNCHANGED <<playwright, browser, context, page, live, mmid_counter>> ]_vars
    /\ [](NavigateTimedOut =>
             /\ ENABLED (navigate_to_url(call.text, "ok") /\ ret'.status = "success")
             /\ ENABLED (get_current_url /\ ret'.status = "success")
             /\ ENABLED (press_enter /\ ret'.status = "success"))

\* A navigation timed out after two snapshot passes: the counter the
\* passes left is still there.
C14_Witness ==
    /\ NavigateTimedOut /\ ret = ErrorEnvelope
    /\ ops = << Op("goto", page, FALSE) >>
    /\ passes = 2 /\ mmid_counter > InitialCounter
    /\ url # call.text

\* The last call launched an engine.
EngineLaunched == \E i \in 1..Len(ops) : ops[i].op = "browser" /\ ops[i].ok

\* C15: the engine launched by initialize_browser(headless) runs in the mode
\* the argument names, for headless true and for headless false.
C15_LaunchModeIsArgument ==
    (call.name = "initialize_browser" /\ EngineLaunched) => headless = call.headless

\* Calls whose script has been sent, with the counter formatted into it.
Seeded == {t \in Tasks : tasks[t].pc \in {"evaluate", "evaluated"}}

\* C16: two get_page_dom() calls that interleave at their awaits are never
\* seeded with the same counter value, and the identifiers their passes
\* issue do not overlap.
C16_InterleavedPassesDisjoint ==
    \A t \in Seeded, u \in Seeded :
        t # u => /\ tasks[t].seed # tasks[u].seed
                 /\ Range(tasks[t].dom.tree) \cap Range(tasks[u].dom.tree) = {}

\* C17: only a get_page_dom that answers "success" changes the counter:
\* every other call of the surface, whether it succeeds or fails, and every
\* failed snapshot leaves it as it was; navigating, closing and
\* re-initializing do not put it back to 1.
C17_OnlySuccessfulSnapshotMovesCounter ==
    [][ /\ mmid_counter' # mmid_counter =>
              (call'.name = "get_page_dom" /\ ret'.status = "success")
        /\ call'.name \in {"initialize_browser", "navigate_to_url", "close_browser"} =>
              (mmid_counter = InitialCounter \/ mmid_counter' # InitialCounter) ]_vars

\* A session initialized again after a pass and a shutdown: the counter is
\* where the pass left it.
C17_Witness ==
    /\ call.name = "initialize_browser" /\ ret.status = "success"
    /\ inits = 2 /\ passes = 1
    /\ <<"page", 1>> \notin live
    /\ mmid_counter > InitialCounter

====
